---- MODULE Spec2Model ----
(***************************************************************************)
(* geocropper: the corner editor and the perspective crop of               *)
(* assets/scripts/cropper.js, as a state machine.                          *)
(*                                                                         *)
(* The module state of cropper.js (image_bitmap, src_image_data, corners,  *)
(* dragging_index, selected_corner), the canvases and the download link    *)
(* are the variables; every event handler is one action.  perform_crop is  *)
(* run statement group by statement group (pc), with no other handler in   *)
(* between: JavaScript runs a handler to completion.                       *)
(*                                                                         *)
(* geometry.js (compute_homography, invert_3x3, multiply_mat3_vec3,        *)
(* is_valid_quad, bilinear_sample) is imported by cropper.js but is not    *)
(* among the sources; these five are modelled from the specification,      *)
(* sections 4.1 to 4.5, in exact rational arithmetic.                      *)
(***************************************************************************)
EXTENDS Integers, Sequences, FiniteSets, TLC

(***************************************************************************)
(* Bounds of the model.                                                    *)
(***************************************************************************)
\* corner edits (drag moves, touch moves, arrow nudges) in one run
MaxEdits == 2
\* crop-button clicks that enter perform_crop in one run
MaxCrops == 2
\* file selections in one run
MaxLoads == 2
\* corner edits, crops and file selections in one run, together
MaxEvents == 4

(***************************************************************************)
(* Program constants.                                                      *)
(***************************************************************************)
\* dragging_index === -1: no drag
NoDrag == -1
\* selected_corner === null, written as an index no corner has
NullCorner == -2
\* image_bitmap / src_image_data === null, written as a file no input has
NullImage == 0
\* UI.handleHitRadiusCss
HandleHitRadiusCss == 22
\* arrow-key step, and the step with Shift
StepPlain == 1
StepShift == 5
\* bytes per RGBA pixel in ImageData.data
BytesPerPixel == 4

(***************************************************************************)
(* Integer helpers.                                                        *)
(***************************************************************************)
Abs(n) == IF n < 0 THEN -n ELSE n

Min(a, b) == IF a < b THEN a ELSE b

Max(a, b) == IF a > b THEN a ELSE b

RECURSIVE Gcd(_, _)
Gcd(a, b) == IF b = 0 THEN Abs(a) ELSE Gcd(b, a % Abs(b))

RECURSIVE GcdSeq(_)
GcdSeq(s) == IF s = <<>> THEN 0 ELSE Gcd(Head(s), GcdSeq(Tail(s)))

\* floor(a / b) for b > 0
FloorDiv(a, b) == a \div b

Pt(x, y) == [x |-> x, y |-> y]

(***************************************************************************)
(* geometry.js, modelled from the specification.  A real number is a       *)
(* quotient of integers; a matrix is nine integers n over one integer d    *)
(* (row-major), a failure is a record with ok = FALSE and the failure's    *)
(* name.                                                                   *)
(***************************************************************************)
ZeroMat == <<0, 0, 0, 0, 0, 0, 0, 0, 0>>

Fail(name) == [ok |-> FALSE, n |-> ZeroMat, d |-> 1, err |-> name]

\* the matrix n / d, in lowest terms with d > 0
Ok(n, d) ==
  LET g == Gcd(GcdSeq(n), d)
      s == IF d < 0 THEN -g ELSE g
  IN  [ok |-> TRUE, n |-> [k \in 1..9 |-> n[k] \div s], d |-> d \div s, err |-> "none"]

\* nine integers divided by their common factor (a transform up to scale)
Reduce(n) ==
  LET g == GcdSeq(n)
  IN  IF g = 0 THEN n ELSE [k \in 1..9 |-> n[k] \div g]

Det3(m) ==
    m[1] * (m[5] * m[9] - m[6] * m[8])
  - m[2] * (m[4] * m[9] - m[6] * m[7])
  + m[3] * (m[4] * m[8] - m[5] * m[7])

\* adjugate: the transpose of the cofactor matrix
Adj3(m) ==
  << m[5] * m[9] - m[6] * m[8], m[3] * m[8] - m[2] * m[9], m[2] * m[6] - m[3] * m[5],
     m[6] * m[7] - m[4] * m[9], m[1] * m[9] - m[3] * m[7], m[3] * m[4] - m[1] * m[6],
     m[4] * m[8] - m[5] * m[7], m[2] * m[7] - m[1] * m[8], m[1] * m[5] - m[2] * m[4] >>

MatMul3(a, b) ==
  [k \in 1..9 |->
     LET r == (k - 1) \div 3
         c == (k - 1) % 3
     IN  a[3 * r + 1] * b[c + 1] + a[3 * r + 2] * b[c + 4] + a[3 * r + 3] * b[c + 7]]

\* The projective map taking (0,0), (1,0), (1,1), (0,1) to q[0], q[1], q[2], q[3],
\* times its denominator: the solution of the four-point system for the unit
\* square, in integers.
SquareToQuad(q) ==
  LET dx1 == q[1].x - q[2].x
      dx2 == q[3].x - q[2].x
      sx  == q[0].x - q[1].x + q[2].x - q[3].x
      dy1 == q[1].y - q[2].y
      dy2 == q[3].y - q[2].y
      sy  == q[0].y - q[1].y + q[2].y - q[3].y
      den == dx1 * dy2 - dx2 * dy1
      gn  == sx * dy2 - dx2 * sy
      hn  == dx1 * sy - sx * dy1
  IN  << (q[1].x - q[0].x) * den + gn * q[1].x, (q[3].x - q[0].x) * den + hn * q[3].x, q[0].x * den,
         (q[1].y - q[0].y) * den + gn * q[1].y, (q[3].y - q[0].y) * den + hn * q[3].y, q[0].y * den,
         gn, hn, den >>

\* 4.2: the transform H with H[2][2] = 1 and H . src[k] ~ dst[k] for the four
\* correspondences.  The 8x8 system has a unique solution exactly when the
\* transform exists and its [2][2] entry is not zero; otherwise the system is
\* singular and the failure SingularTransform is returned.
compute_homography(src, dst) ==
  LET S == Reduce(SquareToQuad(src))
      D == Reduce(SquareToQuad(dst))
      Hn == Reduce(MatMul3(D, Adj3(S)))
  IN  IF Det3(S) = 0 \/ Det3(D) = 0 \/ Hn[9] = 0
      THEN Fail("SingularTransform")
      ELSE Ok(Hn, Hn[9])

\* 4.3: adjugate over determinant; SingularMatrix when the determinant
\* vanishes.  A failed transform has no inverse either.
invert_3x3(m) ==
  IF ~m.ok \/ Det3(m.n) = 0
  THEN Fail("SingularMatrix")
  ELSE Ok([k \in 1..9 |-> m.d * Adj3(m.n)[k]], Det3(m.n))

\* 4.4: the raw matrix-vector product (x, y, w) = m . v, as integers n over d
multiply_mat3_vec3(m, v) ==
  [n |-> << m.n[1] * v[1] + m.n[2] * v[2] + m.n[3] * v[3],
            m.n[4] * v[1] + m.n[5] * v[2] + m.n[6] * v[3],
            m.n[7] * v[1] + m.n[8] * v[2] + m.n[9] * v[3] >>,
   d |-> m.d]

\* 4.1: consecutive points distinct, and the four cross products of
\* consecutive edge vectors all of one sign (none zero)
Cross(q, k) ==
  LET a == q[k]
      b == q[(k + 1) % 4]
      c == q[(k + 2) % 4]
  IN  (b.x - a.x) * (c.y - b.y) - (b.y - a.y) * (c.x - b.x)

\* a validator that asks for four turns but not for turns of one sign
is_valid_quad_any_turn(q) ==
  /\ \A k \in 0..3 : q[k] # q[(k + 1) % 4]
  /\ \A k \in 0..3 : Cross(q, k) # 0

is_valid_quad(q) ==
  /\ \A k \in 0..3 : q[k] # q[(k + 1) % 4]
  /\ \/ \A k \in 0..3 : Cross(q, k) > 0
     \/ \A k \in 0..3 : Cross(q, k) < 0

\* a quotient x_h / w_h of the loop: finite (n over d, d > 0, lowest terms) or,
\* when the divisor is 0, the non-finite value the division then yields
Quot(a, b) ==
  IF b = 0
  THEN [fin |-> FALSE, n |-> 0, d |-> 1]
  ELSE LET g == Gcd(a, b)
           s == IF b < 0 THEN -g ELSE g
       IN  [fin |-> TRUE, n |-> a \div s, d |-> b \div s]

(***************************************************************************)
(* The files the user can select: decoded, each is a width x height grid   *)
(* of RGBA pixels (8 bits a channel).                                      *)
(***************************************************************************)
Files == {1, 2}

\* two more images, of one colour throughout: a small one and a 100 x 100 one
SolidFile == 3

SquareFile == 4

SquareSide == 100

ImgW(f) == IF f = SquareFile THEN SquareSide ELSE IF f = 2 THEN 2 ELSE 4

ImgH(f) == IF f = SquareFile THEN SquareSide ELSE 2

\* the colour of pixel (x, y) of file f
Pixel(f, x, y) ==
  IF f \in { SolidFile, SquareFile }
  THEN << 200, 120, 40, 255 >>
  ELSE << 40 * x + 10 * f, 90 * y + 5, 7 * f + x, 255 >>

Clamp(v, lo, hi) == Min(hi, Max(lo, v))

\* a sampler that reads the pixel nearest below and left of (x, y) only
nearest_sample(f, x, y) ==
  IF ~x.fin \/ ~y.fin
  THEN <<0, 0, 0, 0>>
  ELSE Pixel(f, Clamp(FloorDiv(x.n, x.d), 0, ImgW(f) - 1), Clamp(FloorDiv(y.n, y.d), 0, ImgH(f) - 1))

\* 4.5: blend of the four neighbours of (x, y), each clamped into the image,
\* every channel on its own, rounded to the nearest integer.  A sample at a
\* non-finite coordinate has no colour: its channels are stored as 0.
bilinear_sample(f, x, y) ==
  IF ~x.fin \/ ~y.fin
  THEN <<0, 0, 0, 0>>
  ELSE LET x0 == FloorDiv(x.n, x.d)
           y0 == FloorDiv(y.n, y.d)
           rx == x.n - x0 * x.d
           ry == y.n - y0 * y.d
           cx0 == Clamp(x0, 0, ImgW(f) - 1)
           cx1 == Clamp(x0 + 1, 0, ImgW(f) - 1)
           cy0 == Clamp(y0, 0, ImgH(f) - 1)
           cy1 == Clamp(y0 + 1, 0, ImgH(f) - 1)
           Chan(c) ==
             LET top == (x.d - rx) * Pixel(f, cx0, cy0)[c] + rx * Pixel(f, cx1, cy0)[c]
                 bot == (x.d - rx) * Pixel(f, cx0, cy1)[c] + rx * Pixel(f, cx1, cy1)[c]
                 num == (y.d - ry) * top + ry * bot
                 den == x.d * y.d
             IN  FloorDiv(2 * num + den, 2 * den)
       IN  << Chan(1), Chan(2), Chan(3), Chan(4) >>

(***************************************************************************)
(* Math.hypot and Math.round of perform_crop, exactly: for integer         *)
(* coordinates the two lengths are square roots of integers a and b, and   *)
(* Math.round((sqrt(a) + sqrt(b)) / 2) is the largest n with               *)
(* 2n - 1 <= sqrt(a) + sqrt(b).                                            *)
(***************************************************************************)
Dist2(p, q) == (p.x - q.x) * (p.x - q.x) + (p.y - q.y) * (p.y - q.y)

\* sqrt(a) + sqrt(b) >= k, for a, b >= 0
SumSqrtGE(a, b, k) ==
  \/ k <= 0
  \/ k * k - a - b <= 0
  \/ 4 * a * b >= (k * k - a - b) * (k * k - a - b)

RECURSIVE RoundUpFrom(_, _, _)
RoundUpFrom(a, b, n) ==
  IF SumSqrtGE(a, b, 2 * (n + 1) - 1) THEN RoundUpFrom(a, b, n + 1) ELSE n

\* Math.round((Math.hypot(..) + Math.hypot(..)) / 2) for squared lengths a, b
RoundAvgSqrt(a, b) == RoundUpFrom(a, b, 0)

(***************************************************************************)
(* State.                                                                  *)
(***************************************************************************)
VARIABLES
  image_bitmap,     \* the file whose ImageBitmap is held, or NullImage
  src_image_data,   \* the file whose ImageData is held, or NullImage
  corners,          \* [0..3 -> point]: TL, TR, BR, BL
  dragging_index,   \* NoDrag or 0..3
  selected_corner,  \* NullCorner or 0..3
  main_canvas,      \* [width, height] of the main canvas
  tooltip_shown,    \* tooltip.style.display = 'block', as the last draw() left it
  magnifier_shown,  \* whether the last draw() drew the magnifier
  loads,            \* file selections whose change handler has not finished
  n_loads,          \* file selections so far
  pc,               \* where perform_crop is: "idle" when no handler is running it
  src_quad,         \* perform_crop's locals
  target_width,
  target_height,
  dst_rect,
  H,
  H_inv,
  dest_data,        \* dest_image.data: [0 .. width*height*4 - 1 -> byte]
  i,
  j,
  visited,          \* the offsets idx of the pixels the loop has written, in order
  divided_by_zero,  \* whether the loop has divided by a weight w_h = 0
  cropped_canvas,   \* [width, height, blank, data] of the result canvas
  pending,          \* toBlob encodings whose callback has not run
  download_link,    \* download_link.href: the blob it points at, or NoBlob
  n_crops,          \* calls of perform_crop so far
  n_edits,          \* corner edits so far
  owner,            \* workers of a split loop: the worker each destination pixel is given to
  progress,         \* the byte stores each worker has done
  writers           \* for each byte of dest_data, the workers that have stored to it

ui_vars == << corners, dragging_index, selected_corner, tooltip_shown, magnifier_shown, n_edits >>

load_vars == << image_bitmap, src_image_data, main_canvas, loads, n_loads >>

crop_locals == << src_quad, target_width, target_height, dst_rect, H, H_inv, dest_data, i, j,
                  visited, divided_by_zero >>

out_vars == << cropped_canvas, pending, download_link >>

par_vars == << owner, progress, writers >>

vars == << ui_vars, load_vars, pc, crop_locals, out_vars, n_crops, par_vars >>

(***************************************************************************)
(* Inputs of the model: the canvas-pixel positions to_canvas_coords hands  *)
(* to the pointer handlers.                                                *)
(***************************************************************************)
Pointers == { Pt(0, 0), Pt(4, 0), Pt(1, 1), Pt(3, 1), Pt(100, 100) }

Keys == { "ArrowLeft", "ArrowRight", "ArrowUp", "ArrowDown", "Enter" }

\* CSS pixels per canvas pixel of the layout (get_canvas_scale: s = 1 / CssPerPx)
CssPerPx == 100

\* the main canvas and the result canvas before any file is loaded
InitCanvasW == 800
InitCanvasH == 600
DefaultCanvasW == 300
DefaultCanvasH == 150

InitCorners ==
  [k \in 0..3 |-> IF k = 0 THEN Pt(100, 100)
                  ELSE IF k = 1 THEN Pt(700, 100)
                  ELSE IF k = 2 THEN Pt(700, 500)
                  ELSE Pt(100, 500)]

NoBlob == [crop |-> 0, width |-> 0, height |-> 0, data |-> <<>>]

NoMat == Fail("unset")

Init ==
  /\ image_bitmap = NullImage
  /\ src_image_data = NullImage
  /\ corners = InitCorners
  /\ dragging_index = NoDrag
  /\ selected_corner = NullCorner
  /\ main_canvas = [width |-> InitCanvasW, height |-> InitCanvasH]
  /\ tooltip_shown = FALSE
  /\ magnifier_shown = FALSE
  /\ loads = {}
  /\ n_loads = 0
  /\ pc = "idle"
  /\ src_quad = InitCorners
  /\ target_width = 0
  /\ target_height = 0
  /\ dst_rect = InitCorners
  /\ H = NoMat
  /\ H_inv = NoMat
  /\ dest_data = <<>>
  /\ i = 0
  /\ j = 0
  /\ visited = <<>>
  /\ divided_by_zero = FALSE
  /\ cropped_canvas = [width |-> DefaultCanvasW, height |-> DefaultCanvasH, blank |-> TRUE, data |-> <<>>]
  /\ pending = {}
  /\ download_link = NoBlob
  /\ n_crops = 0
  /\ n_edits = 0
  /\ owner = <<>>
  /\ progress = <<>>
  /\ writers = <<>>

\* the run has room for one more corner edit, crop or file selection
WithinBudget == n_edits + n_crops + n_loads < MaxEvents

(***************************************************************************)
(* draw(): what it leaves on screen.                                       *)
(***************************************************************************)
\* the validity of the quad as it was before the handler's edit
TooltipStale(cs) == ~is_valid_quad(corners)

\* draw_grid_and_handles: the tooltip is shown exactly when the quad is invalid
TooltipAfterDraw(cs) == ~is_valid_quad(cs)

\* the magnifier is drawn for the dragged handle, and only over an image
MagnifierAfterDraw(drag, bitmap) == drag # NoDrag /\ bitmap # NullImage

Draw(cs, drag, bitmap) ==
  /\ tooltip_shown' = TooltipAfterDraw(cs)
  /\ magnifier_shown' = MagnifierAfterDraw(drag, bitmap)

\* Math.hypot(dx, dy) <= hit_r, with hit_r = HandleHitRadiusCss / CssPerPx, squared
Hits(k, p) ==
  Dist2(corners[k], p) <= FloorDiv(HandleHitRadiusCss * HandleHitRadiusCss, CssPerPx * CssPerPx)

\* hit_test_corner: the first corner within the hit radius of (mx, my), or -1

hit_test_corner(p) ==
  IF \E k \in 0..3 : Hits(k, p)
  THEN CHOOSE k \in 0..3 : Hits(k, p) /\ \A m \in 0..(k - 1) : ~Hits(m, p)
  ELSE -1

\* the dragged corner set to the pointer position as it comes
MoveCornerUnclamped(k, p) == [corners EXCEPT ![k] = p]

\* the dragged corner set to the pointer position, clamped into the canvas
MoveCorner(k, p) ==
  [corners EXCEPT ![k] = Pt(Clamp(p.x, 0, main_canvas.width), Clamp(p.y, 0, main_canvas.height))]

(***************************************************************************)
(* Pointer and keyboard handlers.                                          *)
(***************************************************************************)
PressAt(p) ==
  LET idx == hit_test_corner(p)
  IN  IF idx # -1
      THEN /\ dragging_index' = idx
           /\ selected_corner' = idx
           /\ Draw(corners, idx, image_bitmap)
           /\ UNCHANGED << corners, n_edits >>
      ELSE UNCHANGED ui_vars

DragTo(p) ==
  IF dragging_index = NoDrag
  THEN UNCHANGED ui_vars
  ELSE /\ n_edits < MaxEdits
       /\ WithinBudget
       /\ corners' = MoveCorner(dragging_index, p)
       /\ Draw(corners', dragging_index, image_bitmap)
       /\ n_edits' = n_edits + 1
       /\ UNCHANGED << dragging_index, selected_corner >>

\* a release that ends the drag and leaves the screen as it is
ReleaseWithoutRedraw ==
  IF dragging_index # NoDrag
  THEN /\ dragging_index' = NoDrag
       /\ UNCHANGED << corners, selected_corner, tooltip_shown, magnifier_shown, n_edits >>
  ELSE UNCHANGED ui_vars

Release ==
  IF dragging_index # NoDrag
  THEN /\ dragging_index' = NoDrag
       /\ Draw(corners, NoDrag, image_bitmap)
       /\ UNCHANGED << corners, selected_corner, n_edits >>
  ELSE UNCHANGED ui_vars

Idle == pc = "idle"

RestUnchangedUI == UNCHANGED << load_vars, pc, crop_locals, out_vars, n_crops, par_vars >>

MouseDown == \E p \in Pointers : Idle /\ PressAt(p) /\ RestUnchangedUI

MouseMove == \E p \in Pointers : Idle /\ DragTo(p) /\ RestUnchangedUI

MouseUp == Idle /\ Release /\ RestUnchangedUI

\* click on the canvas at p
ClickAt(p) ==
  /\ Idle
  /\ selected_corner' = (IF hit_test_corner(p) # -1 THEN hit_test_corner(p) ELSE NullCorner)
  /\ UNCHANGED << corners, dragging_index, tooltip_shown, magnifier_shown, n_edits >>
  /\ RestUnchangedUI

Click == \E p \in Pointers : ClickAt(p)

TouchStart == \E p \in Pointers : Idle /\ PressAt(p) /\ RestUnchangedUI

TouchMove == \E p \in Pointers : Idle /\ DragTo(p) /\ RestUnchangedUI

TouchEnd == Idle /\ Release /\ RestUnchangedUI

TouchCancel == Idle /\ Release /\ RestUnchangedUI

KeyDx(key, step) == IF key = "ArrowLeft" THEN -step ELSE IF key = "ArrowRight" THEN step ELSE 0

\* a vertical step for the horizontal arrows as well
KeyDyEveryArrow(key, step) == IF key = "ArrowDown" THEN step ELSE -step

KeyDy(key, step) == IF key = "ArrowUp" THEN -step ELSE IF key = "ArrowDown" THEN step ELSE 0

Nudge(key, shift) ==
  LET step == IF shift THEN StepShift ELSE StepPlain
      c == corners[selected_corner]
  IN  [corners EXCEPT ![selected_corner] =
         Pt(Clamp(c.x + KeyDx(key, step), 0, main_canvas.width),
            Clamp(c.y + KeyDy(key, step), 0, main_canvas.height))]

\* keydown with e.key = key and e.shiftKey = shift
KeyDownOf(key, shift) ==
  /\ Idle
  /\ IF selected_corner = NullCorner \/ key \notin { "ArrowLeft", "ArrowRight", "ArrowUp", "ArrowDown" }
     THEN UNCHANGED ui_vars
     ELSE /\ n_edits < MaxEdits
          /\ WithinBudget
          /\ corners' = Nudge(key, shift)
          /\ Draw(corners', dragging_index, image_bitmap)
          /\ n_edits' = n_edits + 1
          /\ UNCHANGED << dragging_index, selected_corner >>
  /\ RestUnchangedUI

KeyDown == \E key \in Keys, shift \in BOOLEAN : KeyDownOf(key, shift)

\* grid input, resize observer, window load, orientationchange: draw()
Repaint ==
  /\ Idle
  /\ Draw(corners, dragging_index, image_bitmap)
  /\ UNCHANGED << corners, dragging_index, selected_corner, n_edits >>
  /\ RestUnchangedUI

(***************************************************************************)
(* File loading: the change handler awaits create_image_bitmap_from_file,  *)
(* whose img.onload stores src_image_data and whose createImageBitmap      *)
(* promise, once resolved, lets the handler run to its end.                *)
(***************************************************************************)
\* Math.round(Math.min(width, height) * 0.04)
Inset(w, h) == FloorDiv(4 * Min(w, h) + 50, 100)

\* the corners put on the corners of the image, with no inset
SeedCornersNoInset(w, h) ==
  [k \in 0..3 |-> IF k = 0 THEN Pt(0, 0)
                  ELSE IF k = 1 THEN Pt(w, 0)
                  ELSE IF k = 2 THEN Pt(w, h)
                  ELSE Pt(0, h)]

SeedCorners(w, h) ==
  LET inset == Inset(w, h)
  IN  [k \in 0..3 |-> IF k = 0 THEN Pt(inset, inset)
                      ELSE IF k = 1 THEN Pt(w - inset, inset)
                      ELSE IF k = 2 THEN Pt(w - inset, h - inset)
                      ELSE Pt(inset, h - inset)]

RestUnchangedLoad == UNCHANGED << pc, crop_locals, out_vars, n_crops, n_edits, par_vars >>

\* change event with a file chosen: the handler starts decoding and awaits
FileChange ==
  \E f \in Files :
    /\ Idle
    /\ n_loads < MaxLoads
    /\ WithinBudget
    /\ n_loads' = n_loads + 1
    /\ loads' = loads \cup { [id |-> n_loads + 1, file |-> f, phase |-> "decoding"] }
    /\ UNCHANGED << image_bitmap, src_image_data, main_canvas >>
    /\ UNCHANGED << corners, dragging_index, selected_corner, tooltip_shown, magnifier_shown >>
    /\ RestUnchangedLoad

\* img.onload: src_image_data is stored, createImageBitmap is started
ImgOnload ==
  \E l \in loads :
    /\ Idle
    /\ l.phase = "decoding"
    /\ src_image_data' = l.file
    /\ loads' = (loads \ {l}) \cup { [l EXCEPT !.phase = "bitmap"] }
    /\ UNCHANGED << image_bitmap, main_canvas, n_loads >>
    /\ UNCHANGED << corners, dragging_index, selected_corner, tooltip_shown, magnifier_shown >>
    /\ RestUnchangedLoad

\* img.onerror: the promise rejects and the handler ends there
ImgOnerror ==
  \E l \in loads :
    /\ Idle
    /\ l.phase = "decoding"
    /\ loads' = loads \ {l}
    /\ UNCHANGED << image_bitmap, src_image_data, main_canvas, n_loads >>
    /\ UNCHANGED << corners, dragging_index, selected_corner, tooltip_shown, magnifier_shown >>
    /\ RestUnchangedLoad

\* createImageBitmap resolves: the change handler resumes and runs to its end
BitmapReady ==
  \E l \in loads :
    /\ Idle
    /\ l.phase = "bitmap"
    /\ image_bitmap' = l.file
    /\ main_canvas' = [width |-> ImgW(l.file), height |-> ImgH(l.file)]
    /\ corners' = SeedCorners(ImgW(l.file), ImgH(l.file))
    /\ Draw(corners', dragging_index, image_bitmap')
    /\ loads' = loads \ {l}
    /\ UNCHANGED << src_image_data, n_loads, dragging_index, selected_corner >>
    /\ RestUnchangedLoad

(***************************************************************************)
(* The crop button and perform_crop.                                       *)
(***************************************************************************)
\* a crop that writes the canonical rectangle back into corners
CropNormalisesQuad ==
  /\ corners' = dst_rect
  /\ UNCHANGED << dragging_index, selected_corner, tooltip_shown, magnifier_shown, n_edits, load_vars,
                  par_vars >>

RestUnchangedCrop == UNCHANGED << ui_vars, load_vars, par_vars >>

\* the click handler without its is_valid_quad guard
ClickVerdictUnchecked ==
  IF image_bitmap = NullImage \/ src_image_data = NullImage THEN "NoImage" ELSE "crop"

\* the click handler asking for the pixel data only, not for the bitmap
ClickVerdictDataOnly ==
  IF src_image_data = NullImage THEN "NoImage"
  ELSE IF ~is_valid_quad(corners) THEN "InvalidQuad"
  ELSE "crop"

\* the click handler's guards: which way a click on the crop button goes
ClickVerdict ==
  IF image_bitmap = NullImage \/ src_image_data = NullImage THEN "NoImage"
  ELSE IF ~is_valid_quad(corners) THEN "InvalidQuad"
  ELSE "crop"

\* click on the crop button: nothing without an image, the alert for an
\* invalid quad, and otherwise perform_crop, which starts with its snapshot
\* of corners
CropClick ==
  /\ Idle
  /\ IF ClickVerdict = "crop"
     THEN /\ n_crops < MaxCrops
          /\ WithinBudget
          /\ n_crops' = n_crops + 1
          /\ src_quad' = [k \in 0..3 |-> Pt(corners[k].x, corners[k].y)]
          /\ pc' = "size"
          /\ UNCHANGED << target_width, target_height, dst_rect, H, H_inv, dest_data, i, j,
                          visited, divided_by_zero >>
     ELSE /\ pc' = (IF ClickVerdict = "InvalidQuad" THEN "alert" ELSE "idle")
          /\ UNCHANGED << crop_locals, n_crops >>
  /\ UNCHANGED out_vars
  /\ RestUnchangedCrop

\* the user closes the alert; the click handler returns
AlertClosed ==
  /\ pc = "alert"
  /\ pc' = "idle"
  /\ UNCHANGED << crop_locals, out_vars, n_crops >>
  /\ RestUnchangedCrop

\* the width taken from the top edge alone
TargetWidthTopEdge(q) == Max(1, RoundAvgSqrt(Dist2(q[0], q[1]), Dist2(q[0], q[1])))

TargetWidth(q) == Max(1, RoundAvgSqrt(Dist2(q[0], q[1]), Dist2(q[3], q[2])))

TargetHeight(q) == Max(1, RoundAvgSqrt(Dist2(q[0], q[3]), Dist2(q[1], q[2])))

\* the rectangle listed from its top-left corner downwards first
DstRectTransposed(w, h) ==
  [k \in 0..3 |-> IF k = 0 THEN Pt(0, 0)
                  ELSE IF k = 1 THEN Pt(0, h)
                  ELSE IF k = 2 THEN Pt(w, h)
                  ELSE Pt(w, 0)]

DstRect(w, h) ==
  [k \in 0..3 |-> IF k = 0 THEN Pt(0, 0)
                  ELSE IF k = 1 THEN Pt(w, 0)
                  ELSE IF k = 2 THEN Pt(w, h)
                  ELSE Pt(0, h)]

\* target size from the average edge lengths, and the destination rectangle
ComputeSize ==
  /\ pc = "size"
  /\ target_width' = TargetWidth(src_quad)
  /\ target_height' = TargetHeight(src_quad)
  /\ dst_rect' = DstRect(target_width', target_height')
  /\ pc' = "solve"
  /\ UNCHANGED << src_quad, H, H_inv, dest_data, i, j, visited, divided_by_zero >>
  /\ UNCHANGED << out_vars, n_crops >>
  /\ RestUnchangedCrop

\* const H = compute_homography(src_quad, dst_rect)
Solve ==
  /\ pc = "solve"
  /\ H' = compute_homography(src_quad, dst_rect)
  /\ pc' = "invert"
  /\ UNCHANGED << src_quad, target_width, target_height, dst_rect, H_inv, dest_data, i, j,
                  visited, divided_by_zero >>
  /\ UNCHANGED << out_vars, n_crops >>
  /\ RestUnchangedCrop

\* const H_inv = invert_3x3(H)
Invert ==
  /\ pc = "invert"
  /\ H_inv' = invert_3x3(H)
  /\ pc' = "alloc"
  /\ UNCHANGED << src_quad, target_width, target_height, dst_rect, H, dest_data, i, j,
                  visited, divided_by_zero >>
  /\ UNCHANGED << out_vars, n_crops >>
  /\ RestUnchangedCrop

\* the result canvas is resized (which clears it) and the ImageData is created
Alloc ==
  /\ pc = "alloc"
  /\ cropped_canvas' = [width |-> target_width, height |-> target_height, blank |-> TRUE, data |-> <<>>]
  /\ dest_data' = [k \in 0..(target_width * target_height * BytesPerPixel - 1) |-> 0]
  /\ i' = 0
  /\ j' = 0
  /\ pc' = "loop"
  /\ UNCHANGED << src_quad, target_width, target_height, dst_rect, H, H_inv, visited, divided_by_zero >>
  /\ UNCHANGED << pending, download_link, n_crops >>
  /\ RestUnchangedCrop

\* the projection with the pixel's coordinates exchanged
ProjectSwapped(m, pi, pj) == multiply_mat3_vec3(m, << pj, pi, 1 >>)

\* the homogeneous source point of destination pixel (pi, pj)
Project(m, pi, pj) == multiply_mat3_vec3(m, << pi, pj, 1 >>)

\* the colour the loop body computes for pixel (pi, pj)
PixelColour(m, f, pi, pj) ==
  LET hp == Project(m, pi, pj)
      src_x == Quot(hp.n[1], hp.n[3])
      src_y == Quot(hp.n[2], hp.n[3])
  IN  bilinear_sample(f, src_x, src_y)

\* idx without the factor of four bytes a pixel
PixelIdxUnscaled(pi, pj, w) == pj * w + pi

\* idx of the loop body
PixelIdx(pi, pj, w) == (pj * w + pi) * BytesPerPixel

\* dest_data after the four stores of the loop body
StorePixel(data, idx, rgba) ==
  [data EXCEPT ![idx] = rgba[1], ![idx + 1] = rgba[2], ![idx + 2] = rgba[3], ![idx + 3] = rgba[4]]

\* one pass of the inner loop body, with the loops' increments
PixelStep ==
  /\ pc = "loop"
  /\ j < target_height
  /\ i < target_width
  /\ LET idx == PixelIdx(i, j, target_width)
     IN  /\ dest_data' = StorePixel(dest_data, idx, PixelColour(H_inv, src_image_data, i, j))
         /\ visited' = Append(visited, idx)
  /\ divided_by_zero' = (divided_by_zero \/ Project(H_inv, i, j).n[3] = 0)
  /\ IF i + 1 < target_width
     THEN i' = i + 1 /\ j' = j
     ELSE i' = 0 /\ j' = j + 1
  /\ UNCHANGED << src_quad, target_width, target_height, dst_rect, H, H_inv, pc >>
  /\ UNCHANGED << out_vars, n_crops >>
  /\ RestUnchangedCrop

\* a loop left at any point
LoopExitEarly ==
  /\ pc = "loop"
  /\ pc' = "put"
  /\ UNCHANGED crop_locals
  /\ UNCHANGED << out_vars, n_crops >>
  /\ RestUnchangedCrop

\* the outer loop's condition fails
LoopExit ==
  /\ pc = "loop"
  /\ ~(j < target_height)
  /\ pc' = "put"
  /\ UNCHANGED crop_locals
  /\ UNCHANGED << out_vars, n_crops >>
  /\ RestUnchangedCrop

\* perform_crop returns: its locals are gone
LocalsGone ==
  /\ src_quad' = InitCorners
  /\ target_width' = 0
  /\ target_height' = 0
  /\ dst_rect' = InitCorners
  /\ H' = NoMat
  /\ H_inv' = NoMat
  /\ dest_data' = <<>>
  /\ i' = 0
  /\ j' = 0
  /\ visited' = <<>>
  /\ divided_by_zero' = FALSE

\* putImageData, then toBlob: the canvas is encoded as it is now, the
\* callback runs later
PutAndEncode ==
  /\ pc = "put"
  /\ cropped_canvas' = [cropped_canvas EXCEPT !.blank = FALSE, !.data = dest_data]
  /\ pending' = pending \cup { [crop |-> n_crops, width |-> cropped_canvas.width,
                                height |-> cropped_canvas.height, data |-> dest_data] }
  /\ pc' = "idle"
  /\ LocalsGone
  /\ UNCHANGED << download_link, n_crops >>
  /\ RestUnchangedCrop

\* the toBlob callback: with a blob, the download link is pointed at it
BlobCallback ==
  \E b \in pending, encoded \in BOOLEAN :
    /\ Idle
    /\ pending' = pending \ {b}
    /\ download_link' = (IF encoded THEN b ELSE download_link)
    /\ UNCHANGED << cropped_canvas, pc, crop_locals, n_crops >>
    /\ RestUnchangedCrop

Next ==
  \/ MouseDown
  \/ MouseMove
  \/ MouseUp
  \/ Click
  \/ TouchStart
  \/ TouchMove
  \/ TouchEnd
  \/ TouchCancel
  \/ KeyDown
  \/ Repaint
  \/ FileChange
  \/ ImgOnload
  \/ ImgOnerror
  \/ BitmapReady
  \/ CropClick
  \/ AlertClosed
  \/ ComputeSize
  \/ Solve
  \/ Invert
  \/ Alloc
  \/ PixelStep
  \/ LoopExit
  \/ PutAndEncode
  \/ BlobCallback

Spec == Init /\ [][Next]_vars

(***************************************************************************)
(* The pixel loop split among workers (specification, section 5): the      *)
(* destination pixels are partitioned among the workers; each worker runs   *)
(* the loop body of perform_crop over its own pixels in row-major order,   *)
(* one store to dest_data at a time, and the workers' stores interleave in *)
(* any order.  H_inv and the source are read only.                          *)
(***************************************************************************)
\* workers of a split loop
NumWorkers == 2

Workers == 1..NumWorkers

Quad(tl, tr, br, bl) ==
  [k \in 0..3 |-> IF k = 0 THEN tl ELSE IF k = 1 THEN tr ELSE IF k = 2 THEN br ELSE bl]

\* the crops whose loop is split: a file and a quad on it (a perspective
\* trapezoid, a sheared parallelogram, the trapezoid whose solve fails, and
\* the whole of the small image)
ParInputs ==
  { << 1, Quad(Pt(1, 0), Pt(3, 0), Pt(4, 2), Pt(0, 2)) >>,
    << 1, Quad(Pt(0, 0), Pt(2, 0), Pt(3, 2), Pt(1, 2)) >>,
    << 1, Quad(Pt(1, 1), Pt(3, 1), Pt(4, 2), Pt(0, 2)) >>,
    << 2, Quad(Pt(0, 0), Pt(2, 0), Pt(2, 2), Pt(0, 2)) >> }

\* perform_crop for file f and quad q, arrived at its loop, and the loop's
\* pixels handed out to the workers
InitPar ==
  \E inp \in ParInputs :
    LET f == inp[1]
        q == inp[2]
        w == TargetWidth(q)
        h == TargetHeight(q)
    IN  /\ image_bitmap = f
        /\ src_image_data = f
        /\ corners = q
        /\ dragging_index = NoDrag
        /\ selected_corner = NullCorner
        /\ main_canvas = [width |-> ImgW(f), height |-> ImgH(f)]
        /\ tooltip_shown = FALSE
        /\ magnifier_shown = FALSE
        /\ loads = {}
        /\ n_loads = 1
        /\ pc = "par"
        /\ src_quad = q
        /\ target_width = w
        /\ target_height = h
        /\ dst_rect = DstRect(w, h)
        /\ H = compute_homography(q, DstRect(w, h))
        /\ H_inv = invert_3x3(compute_homography(q, DstRect(w, h)))
        /\ dest_data = [k \in 0..(w * h * BytesPerPixel - 1) |-> 0]
        /\ i = 0
        /\ j = 0
        /\ visited = <<>>
        /\ divided_by_zero = FALSE
        /\ cropped_canvas = [width |-> w, height |-> h, blank |-> TRUE, data |-> <<>>]
        /\ pending = {}
        /\ download_link = NoBlob
        /\ n_crops = 1
        /\ n_edits = 0
        /\ owner \in [0..(w * h - 1) -> Workers]
        /\ progress = [wk \in Workers |-> 0]
        /\ writers = [k \in 0..(w * h * BytesPerPixel - 1) |-> {}]

\* the pixels of worker wk, and the r-th of them (from 0) in row-major order
SliceOf(wk) == { n \in DOMAIN owner : owner[n] = wk }

SliceAt(wk, r) ==
  CHOOSE n \in SliceOf(wk) : Cardinality({ m \in SliceOf(wk) : m < n }) = r

\* worker wk does the next store of the loop body for its current pixel
WorkerStore(wk) ==
  /\ pc = "par"
  /\ progress[wk] < BytesPerPixel * Cardinality(SliceOf(wk))
  /\ LET n == SliceAt(wk, progress[wk] \div BytesPerPixel)
         c == progress[wk] % BytesPerPixel
         pi == n % target_width
         pj == n \div target_width
         idx == PixelIdx(pi, pj, target_width)
     IN  /\ dest_data' = [dest_data EXCEPT ![idx + c] = PixelColour(H_inv, src_image_data, pi, pj)[c + 1]]
         /\ writers' = [writers EXCEPT ![idx + c] = @ \cup {wk}]
  /\ progress' = [progress EXCEPT ![wk] = @ + 1]
  /\ UNCHANGED << src_quad, target_width, target_height, dst_rect, H, H_inv, i, j, visited,
                  divided_by_zero >>
  /\ UNCHANGED << ui_vars, load_vars, pc, out_vars, n_crops, owner >>

\* every worker has finished its slice
WorkersJoin ==
  /\ pc = "par"
  /\ \A wk \in Workers : progress[wk] = BytesPerPixel * Cardinality(SliceOf(wk))
  /\ pc' = "joined"
  /\ UNCHANGED << ui_vars, load_vars, crop_locals, out_vars, n_crops, par_vars >>

NextPar ==
  \/ \E wk \in Workers : WorkerStore(wk)
  \/ WorkersJoin

SpecPar == InitPar /\ [][NextPar]_vars

(***************************************************************************)
(* The crop button pressed on any quad: an image is loaded, the corners    *)
(* have been dragged to grid points of it, and the user clicks Crop.       *)
(***************************************************************************)
GridPoints(f) == { Pt(x, y) : x \in 0..ImgW(f), y \in 0..ImgH(f) }

\* the cross product of the vectors a -> b and c -> d
CrossOf(a, b, c, d) == (b.x - a.x) * (d.y - c.y) - (b.y - a.y) * (d.x - c.x)

\* a valid quad with a pair of parallel opposite sides
IsTrapezoid(q) ==
  /\ is_valid_quad(q)
  /\ \/ CrossOf(q[0], q[1], q[3], q[2]) = 0
     \/ CrossOf(q[0], q[3], q[1], q[2]) = 0

\* the quads tried on file f: every quad of the small image, valid or not,
\* every valid quad of the 4 x 2 image, every trapezoid of the solid one
RectifyQuads(f) ==
  IF f = 2 THEN [0..3 -> GridPoints(f)]
  ELSE IF f = 1 THEN { q \in [0..3 -> GridPoints(f)] : is_valid_quad(q) }
  ELSE { q \in [0..3 -> GridPoints(f)] : IsTrapezoid(q) }

\* file f loaded, the corners at q, drawn; room left for one crop
Loaded(f, q) ==
  /\ image_bitmap = f
  /\ src_image_data = f
  /\ corners = q
  /\ dragging_index = NoDrag
  /\ selected_corner = NullCorner
  /\ main_canvas = [width |-> ImgW(f), height |-> ImgH(f)]
  /\ tooltip_shown = TooltipAfterDraw(q)
  /\ magnifier_shown = FALSE
  /\ loads = {}
  /\ n_loads = 1
  /\ pc = "idle"
  /\ src_quad = InitCorners
  /\ target_width = 0
  /\ target_height = 0
  /\ dst_rect = InitCorners
  /\ H = NoMat
  /\ H_inv = NoMat
  /\ dest_data = <<>>
  /\ i = 0
  /\ j = 0
  /\ visited = <<>>
  /\ divided_by_zero = FALSE
  /\ cropped_canvas = [width |-> DefaultCanvasW, height |-> DefaultCanvasH, blank |-> TRUE, data |-> <<>>]
  /\ pending = {}
  /\ download_link = NoBlob
  /\ n_crops = 0
  /\ n_edits = MaxEvents - 2
  /\ owner = <<>>
  /\ progress = <<>>
  /\ writers = <<>>

InitRectify == \E f \in Files \cup { SolidFile } : \E q \in RectifyQuads(f) : Loaded(f, q)

NextRectify ==
  \/ Repaint
  \/ CropClick
  \/ AlertClosed
  \/ ComputeSize
  \/ Solve
  \/ Invert
  \/ Alloc
  \/ PixelStep
  \/ LoopExit
  \/ PutAndEncode
  \/ BlobCallback

SpecRectify == InitRectify /\ [][NextRectify]_vars

\* the 100 x 100 image of one colour with the corners on its corners
SquareQuad ==
  Quad(Pt(0, 0), Pt(SquareSide, 0), Pt(SquareSide, SquareSide), Pt(0, SquareSide))

InitSquare == Loaded(SquareFile, SquareQuad)

NextSquare ==
  \/ CropClick
  \/ ComputeSize
  \/ Solve
  \/ Invert
  \/ Alloc
  \/ PixelStep
  \/ LoopExit
  \/ PutAndEncode
  \/ BlobCallback

SpecSquare == InitSquare /\ [][NextSquare]_vars

(***************************************************************************)
(* The corner editor around file loads: a first file is selected and is    *)
(* being decoded; the pointer and key handlers run before, while and       *)
(* after it loads, and a second file may be selected.  The first file is   *)
(* the 4 x 2 image, whose inset is 0, or the 100 x 100 one, whose inset    *)
(* is 4.  The crop button is left alone.                                   *)
(***************************************************************************)
SeedFiles == { 1, SquareFile }

InitSeed ==
  \E f \in SeedFiles :
    /\ image_bitmap = NullImage
    /\ src_image_data = NullImage
    /\ corners = InitCorners
    /\ dragging_index = NoDrag
    /\ selected_corner = NullCorner
    /\ main_canvas = [width |-> InitCanvasW, height |-> InitCanvasH]
    /\ tooltip_shown = FALSE
    /\ magnifier_shown = FALSE
    /\ loads = { [id |-> 1, file |-> f, phase |-> "decoding"] }
    /\ n_loads = 1
    /\ pc = "idle"
    /\ src_quad = InitCorners
    /\ target_width = 0
    /\ target_height = 0
    /\ dst_rect = InitCorners
    /\ H = NoMat
    /\ H_inv = NoMat
    /\ dest_data = <<>>
    /\ i = 0
    /\ j = 0
    /\ visited = <<>>
    /\ divided_by_zero = FALSE
    /\ cropped_canvas = [width |-> DefaultCanvasW, height |-> DefaultCanvasH, blank |-> TRUE, data |-> <<>>]
    /\ pending = {}
    /\ download_link = NoBlob
    /\ n_crops = 0
    /\ n_edits = 0
    /\ owner = <<>>
    /\ progress = <<>>
    /\ writers = <<>>

NextSeed ==
  \/ MouseDown
  \/ MouseMove
  \/ MouseUp
  \/ Click
  \/ TouchStart
  \/ TouchMove
  \/ TouchEnd
  \/ TouchCancel
  \/ KeyDown
  \/ Repaint
  \/ FileChange
  \/ ImgOnload
  \/ ImgOnerror
  \/ BitmapReady

SpecSeed == InitSeed /\ [][NextSeed]_vars

(***************************************************************************)
(* Properties.                                                             *)
(***************************************************************************)
\* perform_crop is running
InCrop == pc \in { "size", "solve", "invert", "alloc", "loop", "put" }

\* C1: perform_crop is only ever entered, and only ever runs (size
\* computation, solving, inversion, allocation, pixel loop, publication),
\* with a quad that is_valid_quad accepts: the corners as they are then, and
\* the snapshot it works on.
C1_CropOnlyOnValidQuad ==
  InCrop => /\ is_valid_quad(corners)
            /\ src_quad = corners
            /\ is_valid_quad(src_quad)

\* a crop entered after the user has moved corners
C1_Witness == pc = "size" /\ n_edits > 0 /\ corners # SeedCorners(main_canvas.width, main_canvas.height)

\* C2: a click on the crop button with an image loaded and an invalid quad
\* ends in the alert (InvalidQuad) and nowhere else, allocates no buffer and
\* leaves the result canvas, the pending encodings and the download link as
\* they were, until the alert is closed and after.
C2_InvalidQuadRequest ==
  [][ /\ (pc = "idle" /\ image_bitmap # NullImage /\ ~is_valid_quad(corners) /\ pc' # "idle")
         => (pc' = "alert" /\ UNCHANGED << out_vars, crop_locals, n_crops >>)
      /\ (pc = "alert")
         => (pc' = "idle" /\ ~is_valid_quad(corners) /\ UNCHANGED << out_vars, crop_locals, n_crops >>)
      /\ (pc' = "alert") => (pc = "idle" /\ image_bitmap # NullImage /\ ~is_valid_quad(corners))
    ]_vars

\* the alert is up over the result of an earlier crop
C2_Witness ==
  /\ pc = "alert"
  /\ ~is_valid_quad(corners)
  /\ ~cropped_canvas.blank
  /\ download_link # NoBlob

\* the forward solve of this crop has signalled SingularTransform
SolveFailed == pc \in { "invert", "alloc", "loop", "put" } /\ ~H.ok

\* the inversion of this crop has signalled SingularMatrix
InvertFailed == pc \in { "alloc", "loop", "put" } /\ ~H_inv.ok

\* C3: when compute_homography signals a singular system, perform_crop stops
\* there: invert_3x3 is not called on the failed result (the crop never
\* stands past its inversion), no pixel is written and nothing is published.
C3_SingularTransformIsFatal ==
  SolveFailed => /\ pc = "invert"
                 /\ visited = <<>>

\* C4: when invert_3x3 signals a singular matrix, perform_crop stops there:
\* the pixel loop is never run with the failed inverse, nothing is divided by
\* a zero weight, and the result canvas is not touched.
C4_SingularMatrixIsFatal ==
  InvertFailed => /\ pc = "alloc"
                  /\ visited = <<>>
                  /\ ~divided_by_zero

\* the weight w_h of the pixel the loop is about to compute
NextWeight == Project(H_inv, i, j).n[3]

\* C5: a destination pixel whose homogeneous weight is zero aborts the pass:
\* the loop never divides by it and never steps past it.
C5_AtInfinityIsFatal ==
  /\ ~divided_by_zero
  /\ \A k \in 1..Len(visited) :
       LET pi == (visited[k] \div BytesPerPixel) % target_width
           pj == (visited[k] \div BytesPerPixel) \div target_width
       IN  Project(H_inv, pi, pj).n[3] # 0

\* n = Math.round((sqrt(a) + sqrt(b)) / 2): n - 1/2 <= (sqrt(a) + sqrt(b)) / 2 < n + 1/2
IsRoundedAvg(n, a, b) == SumSqrtGE(a, b, 2 * n - 1) /\ ~SumSqrtGE(a, b, 2 * n + 1)

\* w is max(1, round((|p - q| + |r - s|) / 2))
IsTargetSize(w, p, q, r, s) ==
  /\ w >= 1
  /\ \E n \in 0..w : IsRoundedAvg(n, Dist2(p, q), Dist2(r, s)) /\ w = Max(1, n)

\* the size of this crop has been computed
SizeKnown == pc \in { "solve", "invert", "alloc", "loop", "put" }

\* the destination buffer of this crop has been allocated
Allocated == pc \in { "loop", "put" }

\* C6: the output size is max(1, round(average of top and bottom edge
\* lengths)) by max(1, round(average of left and right edge lengths)) of the
\* quad perform_crop was entered with, and the ImageData and the result
\* canvas have exactly this size.
C6_TargetSize ==
  /\ SizeKnown =>
       /\ IsTargetSize(target_width, src_quad[0], src_quad[1], src_quad[3], src_quad[2])
       /\ IsTargetSize(target_height, src_quad[0], src_quad[3], src_quad[1], src_quad[2])
  /\ Allocated =>
       /\ DOMAIN dest_data = 0..(target_width * target_height * BytesPerPixel - 1)
       /\ cropped_canvas.width = target_width
       /\ cropped_canvas.height = target_height

\* a buffer allocated for a quad whose top and bottom edges differ in length
C6_Witness ==
  /\ Allocated
  /\ Dist2(src_quad[0], src_quad[1]) # Dist2(src_quad[3], src_quad[2])
  /\ target_width > 1

\* the transform m takes point p to point q (equality up to scale)
MapsTo(m, p, q) ==
  LET hp == multiply_mat3_vec3(m, << p.x, p.y, 1 >>)
  IN  /\ hp.n[3] # 0
      /\ hp.n[1] = q.x * hp.n[3]
      /\ hp.n[2] = q.y * hp.n[3]

\* C7: the destination quad of every crop is (0,0), (w,0), (w,h), (0,h) in
\* this order, w and h the positive target size, and the transform solved
\* pairs source corner k with destination corner k.
C7_CanonicalDestination ==
  /\ SizeKnown =>
       /\ target_width >= 1
       /\ target_height >= 1
       /\ dst_rect[0] = Pt(0, 0)
       /\ dst_rect[1] = Pt(target_width, 0)
       /\ dst_rect[2] = Pt(target_width, target_height)
       /\ dst_rect[3] = Pt(0, target_height)
  /\ (pc \in { "invert", "alloc", "loop", "put" } /\ H.ok) =>
       \A k \in 0..3 : MapsTo(H, src_quad[k], dst_rect[k])

\* a transform solved for a quad that is no rectangle
C7_Witness ==
  /\ pc = "invert"
  /\ H.ok
  /\ src_quad # SeedCorners(main_canvas.width, main_canvas.height)
  /\ target_width # target_height

\* the offsets the loop is to write: one per destination pixel
AllPixelIdx == { PixelIdx(pi, pj, target_width) : pi \in 0..(target_width - 1), pj \in 0..(target_height - 1) }

\* the four bytes of the pixel at offset idx
Slot(idx) == idx..(idx + 3)

\* C8, in every state of the loop: the pixels written so far are distinct
\* pixels (pi, pj) with 0 <= pi < target_width, 0 <= pj < target_height, in
\* row-major order, their four-byte slots lie inside the buffer and are
\* pairwise disjoint; when the loop has ended every pixel has been written
\* exactly once and the slots cover the whole buffer.
C8_LoopState ==
  Allocated =>
    /\ Len(visited) <= target_width * target_height
    /\ \A k \in 1..Len(visited) :
         /\ visited[k] = PixelIdx((k - 1) % target_width, (k - 1) \div target_width, target_width)
         /\ visited[k] \in AllPixelIdx
         /\ Slot(visited[k]) \subseteq DOMAIN dest_data
         /\ \A m \in 1..Len(visited) : m # k => Slot(visited[m]) \cap Slot(visited[k]) = {}
    /\ pc = "loop" => Len(visited) = j * target_width + i
    /\ pc = "put" =>
         /\ Len(visited) = target_width * target_height
         /\ { visited[k] : k \in 1..Len(visited) } = AllPixelIdx
         /\ UNION { Slot(visited[k]) : k \in 1..Len(visited) } = DOMAIN dest_data

\* C8, for every step of the loop: one pixel is written, and the bytes outside
\* its slot, and the size of the buffer, stay as they were.
C8_LoopStep ==
  (pc = "loop" /\ visited' # visited) =>
    /\ Len(visited') = Len(visited) + 1
    /\ DOMAIN dest_data' = DOMAIN dest_data
    /\ \A k \in DOMAIN dest_data :
         k \notin Slot(visited'[Len(visited')]) => dest_data'[k] = dest_data[k]

\* C8: the resampling loop visits each destination pixel exactly once and
\* writes, for pixel (i, j), only the four bytes at (j*target_width + i)*4;
\* the slots are disjoint, inside the buffer, and cover it when the loop ends.
C8_DisjointSlots == [](C8_LoopState) /\ [][C8_LoopStep]_vars

\* the loop has ended over a buffer of several rows and several columns
C8_Witness ==
  /\ pc = "put"
  /\ target_width > 1
  /\ target_height > 1
  /\ Len(visited) = target_width * target_height

\* The source point of destination pixel (pi, pj), computed without H and
\* H_inv: the projective map from the unit square onto the quad q, applied to
\* (pi / w, pj / h).
DirectSource(q, w, h, pi, pj) ==
  LET m == SquareToQuad(q)
      xh == m[1] * pi * h + m[2] * pj * w + m[3] * w * h
      yh == m[4] * pi * h + m[5] * pj * w + m[6] * w * h
      wh == m[7] * pi * h + m[8] * pj * w + m[9] * w * h
  IN  [x |-> Quot(xh, wh), y |-> Quot(yh, wh)]

\* the colour stored in the buffer for the pixel at offset idx
Stored(idx) == << dest_data[idx], dest_data[idx + 1], dest_data[idx + 2], dest_data[idx + 3] >>

\* C9: every pixel (pi, pj) written holds bilinear_sample(source, x_h / w_h,
\* y_h / w_h) for (x_h, y_h, w_h) = H_inv . (pi, pj, 1), with H_inv the
\* inverse of the transform solved for this crop's quad and rectangle; when
\* that transform exists, this is the sample at the point the quad's own
\* projective map assigns to (pi / w, pj / h).
C9_PixelIsSampleThroughInverse ==
  Allocated =>
    \A k \in 1..Len(visited) :
      LET pi == (k - 1) % target_width
          pj == (k - 1) \div target_width
          inv == invert_3x3(compute_homography(src_quad, DstRect(target_width, target_height)))
          hp == multiply_mat3_vec3(inv, << pi, pj, 1 >>)
          direct == DirectSource(src_quad, target_width, target_height, pi, pj)
      IN  /\ Stored(visited[k]) = bilinear_sample(src_image_data, Quot(hp.n[1], hp.n[3]), Quot(hp.n[2], hp.n[3]))
          /\ H.ok => /\ H_inv.ok
                     /\ Quot(hp.n[1], hp.n[3]) = direct.x
                     /\ Quot(hp.n[2], hp.n[3]) = direct.y
                     /\ Stored(visited[k]) = bilinear_sample(src_image_data, direct.x, direct.y)

\* a whole buffer sampled through the inverse of a perspective (non-affine)
\* transform
C9_Witness ==
  /\ pc = "put"
  /\ H.ok
  /\ H.n[7] # 0
  /\ Len(visited) > 1

\* the result canvas as it is before the first crop
InitialCroppedCanvas ==
  [width |-> DefaultCanvasW, height |-> DefaultCanvasH, blank |-> TRUE, data |-> <<>>]

\* an encoding of a whole image: every byte of a width x height buffer
CompleteImage(b) ==
  /\ b.crop \in 1..n_crops
  /\ b.width >= 1
  /\ b.height >= 1
  /\ DOMAIN b.data = 0..(b.width * b.height * BytesPerPixel - 1)

\* C10 as stated: the result canvas changes only once all target_width *
\* target_height pixels have been written, and the download link only to the
\* encoding of a completed image.
C10_CanvasUpdatedOnlyAfterLoop ==
  [][ /\ cropped_canvas' # cropped_canvas =>
           (pc = "put" /\ Len(visited) = target_width * target_height)
      /\ download_link' # download_link =>
           (download_link' \in pending /\ CompleteImage(download_link'))
    ]_vars

\* no handler is running perform_crop: what another handler, or the user, can see
BetweenHandlers == pc \in { "idle", "alert" }

C10_Published ==
  /\ BetweenHandlers =>
       \/ cropped_canvas = InitialCroppedCanvas /\ n_crops = 0
       \/ /\ ~cropped_canvas.blank
          /\ DOMAIN cropped_canvas.data = 0..(cropped_canvas.width * cropped_canvas.height * BytesPerPixel - 1)
  /\ \A b \in pending : CompleteImage(b)
  /\ download_link # NoBlob => CompleteImage(download_link)

C10_PublishStep ==
  /\ cropped_canvas' # cropped_canvas =>
       \/ /\ pc = "alloc"
          /\ cropped_canvas'.blank
          /\ pc' = "loop"
       \/ /\ pc = "put"
          /\ Len(visited) = target_width * target_height
          /\ ~cropped_canvas'.blank
          /\ cropped_canvas'.data = dest_data
          /\ cropped_canvas'.width = target_width
          /\ cropped_canvas'.height = target_height
  /\ pending' # pending =>
       \/ pc = "put" /\ pending' = pending \cup { [crop |-> n_crops, width |-> target_width,
                                                   height |-> target_height, data |-> dest_data] }
       \/ pc = "idle" /\ \E b \in pending : pending' = pending \ {b}
  /\ download_link' # download_link =>
       (download_link' \in pending /\ CompleteImage(download_link'))

\* C10, amended: pixel data reach the result canvas, and an encoding is
\* started, only when all target_width * target_height pixels have been
\* written; the download link only ever changes to the encoding of a whole
\* image; the canvas is resized and cleared at the start of the pass, inside
\* the handler, and whenever no handler is running it is either untouched or
\* holds a whole image.
C10_OnlyCompleteResults == [](C10_Published) /\ [][C10_PublishStep]_vars

\* a finished crop of several pixels whose encoding the link points at
C10_Witness ==
  /\ pc = "idle"
  /\ ~cropped_canvas.blank
  /\ cropped_canvas.width * cropped_canvas.height > 1
  /\ download_link # NoBlob
  /\ download_link.data = cropped_canvas.data

\* C11: from its entry to its return perform_crop leaves corners,
\* src_image_data, image_bitmap, dragging_index and selected_corner as they
\* are; it works on src_quad, a copy of corners taken at entry, which stays
\* as taken until the return, when it is dropped; an edit of corners after
\* the return changes neither the result canvas nor any encoding of it nor
\* the download link.
C11_SnapshotReadOnlySource ==
  [][ /\ (InCrop \/ InCrop') =>
           UNCHANGED << corners, src_image_data, image_bitmap, dragging_index, selected_corner >>
      /\ (pc = "idle" /\ InCrop') => src_quad' = corners
      /\ (InCrop /\ InCrop') => src_quad' = src_quad
      /\ (InCrop /\ ~InCrop') => src_quad' = InitCorners
      /\ corners' # corners => (pc = "idle" /\ UNCHANGED << out_vars, crop_locals >>)
    ]_vars

\* a finished crop whose quad the user has moved since: the result canvas
\* still has the size of the quad that was cropped
C11_Witness ==
  /\ pc = "idle"
  /\ ~cropped_canvas.blank
  /\ n_loads = 1
  /\ n_edits > 0
  /\ is_valid_quad(corners)
  /\ cropped_canvas.width # TargetWidth(corners)

\* C12: in every state between two handlers the error affordance (tooltip
\* and red outline, both set by draw_grid_and_handles) is on exactly when
\* is_valid_quad rejects the current corners: every handler that changes a
\* corner validates and redraws the new corners before it returns.
C12_AffordanceIffInvalid == tooltip_shown <=> ~is_valid_quad(corners)

\* an invalid quad made by an edit and flagged, and a valid one made by an
\* edit and not flagged
C12_Witness ==
  /\ pc = "idle"
  /\ n_edits > 0
  /\ tooltip_shown
  /\ ~is_valid_quad(corners)
  /\ corners # SeedCorners(main_canvas.width, main_canvas.height)

\* dest_data after the sequential loop of perform_crop has run from pixel
\* number n (row-major) to the end
RECURSIVE RowMajorLoop(_, _)
RowMajorLoop(data, n) ==
  IF n >= target_width * target_height
  THEN data
  ELSE LET pi == n % target_width
           pj == n \div target_width
       IN  RowMajorLoop(StorePixel(data, PixelIdx(pi, pj, target_width),
                                   PixelColour(H_inv, src_image_data, pi, pj)), n + 1)

\* C13: with the destination pixels partitioned among workers in any way and
\* the workers' stores interleaved in any order, every byte of dest_data is
\* stored to by one worker at most, the owner of its pixel, and when all
\* workers have finished the buffer equals the one the sequential row-major
\* loop produces.
C13_WorkersDisjointAndEqual ==
  pc \in { "par", "joined" } =>
    /\ \A b \in DOMAIN writers :
         /\ Cardinality(writers[b]) <= 1
         /\ writers[b] \subseteq { owner[b \div BytesPerPixel] }
    /\ pc = "joined" =>
         /\ \A b \in DOMAIN writers : writers[b] # {}
         /\ dest_data = RowMajorLoop([k \in DOMAIN dest_data |-> 0], 0)

\* both workers have worked, on pixels that alternate within a row, and the
\* buffer holds more than one colour
C13_Witness ==
  /\ pc = "joined"
  /\ target_width > 1
  /\ owner[0] # owner[1]
  /\ \A wk \in Workers : Cardinality(SliceOf(wk)) > 1
  /\ \E b \in DOMAIN dest_data : dest_data[b] # dest_data[b % BytesPerPixel]

\* every pixel of file f has one colour
Uniform(f) ==
  \A x \in 0..(ImgW(f) - 1), y \in 0..(ImgH(f) - 1) : Pixel(f, x, y) = Pixel(f, 0, 0)

\* C14: the crop of a valid trapezoid out of an image of one colour c has
\* the size given by the average-edge-length formula and every one of its
\* pixels is c.
C14_SolidColourCrop ==
  (pc = "put" /\ Uniform(src_image_data) /\ IsTrapezoid(src_quad)) =>
    /\ IsTargetSize(target_width, src_quad[0], src_quad[1], src_quad[3], src_quad[2])
    /\ IsTargetSize(target_height, src_quad[0], src_quad[3], src_quad[1], src_quad[2])
    /\ DOMAIN dest_data = 0..(target_width * target_height * BytesPerPixel - 1)
    /\ \A n \in 0..(target_width * target_height - 1) :
         Stored(n * BytesPerPixel) = Pixel(src_image_data, 0, 0)

\* the same for the trapezoids whose transform compute_homography solves
SolidColourCropWhenSolved ==
  (pc = "put" /\ Uniform(src_image_data) /\ IsTrapezoid(src_quad) /\ H.ok) =>
    /\ DOMAIN dest_data = 0..(target_width * target_height * BytesPerPixel - 1)
    /\ \A n \in 0..(target_width * target_height - 1) :
         Stored(n * BytesPerPixel) = Pixel(src_image_data, 0, 0)

Identity3 == <<1, 0, 0, 0, 1, 0, 0, 0, 1>>

\* this crop is the one of the square quad over the 100 x 100 image
SquareCrop == src_image_data = SquareFile /\ src_quad = SquareQuad

\* C15: the crop of the quad (0,0), (100,0), (100,100), (0,100) out of the
\* 100 x 100 image of one colour is 100 x 100: the transform solved is the
\* identity, every destination pixel (x, y) is sampled at (x, y) and holds
\* the colour of source pixel (x, y), and the canvas published is this buffer.
C15_SquareIsIdentity ==
  /\ (SquareCrop /\ SizeKnown) =>
       /\ target_width = SquareSide
       /\ target_height = SquareSide
  /\ (SquareCrop /\ pc \in { "invert", "alloc", "loop", "put" }) =>
       /\ H.ok
       /\ H.n = Identity3
       /\ H.d = 1
  /\ (SquareCrop /\ pc = "loop" /\ visited # <<>>) =>
       LET n == Len(visited) - 1
       IN  /\ visited[Len(visited)] = n * BytesPerPixel
           /\ Stored(n * BytesPerPixel) = Pixel(src_image_data, n % SquareSide, n \div SquareSide)
  /\ (SquareCrop /\ pc = "put") =>
       /\ H_inv.ok
       /\ DOMAIN dest_data = 0..(SquareSide * SquareSide * BytesPerPixel - 1)
       /\ \A x \in 0..(SquareSide - 1), y \in 0..(SquareSide - 1) :
            /\ Project(H_inv, x, y).n = << x * Project(H_inv, x, y).n[3], y * Project(H_inv, x, y).n[3],
                                           Project(H_inv, x, y).n[3] >>
            /\ Stored((y * SquareSide + x) * BytesPerPixel) = Pixel(src_image_data, x, y)
  /\ (src_image_data = SquareFile /\ corners = SquareQuad /\ pc = "idle" /\ ~cropped_canvas.blank) =>
       /\ cropped_canvas.width = SquareSide
       /\ cropped_canvas.height = SquareSide
       /\ \A x \in 0..(SquareSide - 1), y \in 0..(SquareSide - 1), c \in 1..BytesPerPixel :
            cropped_canvas.data[(y * SquareSide + x) * BytesPerPixel + c - 1] = Pixel(src_image_data, x, y)[c]

\* the square is being cropped: the size is 100 x 100, the transform solved is
\* the identity, the buffer of 40000 bytes is allocated, and the pixels written
\* so far hold the colours of their source pixels
C15_Witness ==
  /\ SquareCrop
  /\ pc = "loop"
  /\ target_width = SquareSide
  /\ target_height = SquareSide
  /\ H.ok
  /\ H.n = Identity3
  /\ H_inv.ok
  /\ DOMAIN dest_data = 0..(SquareSide * SquareSide * BytesPerPixel - 1)
  /\ Len(visited) = 3
  /\ \A k \in 1..Len(visited) : Stored(visited[k]) = Pixel(src_image_data, k - 1, 0)

\* on which side of the line a -> b the point c lies: the sign of the turn
Turn(a, b, c) == CrossOf(a, b, b, c)

\* the segments a b and c d cross at a point inside both
SegmentsCross(a, b, c, d) ==
  /\ Turn(a, b, c) * Turn(a, b, d) < 0
  /\ Turn(c, d, a) * Turn(c, d, b) < 0

RepeatedPoint(q) == \E k, m \in 0..3 : k # m /\ q[k] = q[m]

Bowtie(q) == SegmentsCross(q[0], q[1], q[2], q[3]) \/ SegmentsCross(q[1], q[2], q[3], q[0])

ThreeCollinear(q) == \E k \in 0..3 : Turn(q[k], q[(k + 1) % 4], q[(k + 2) % 4]) = 0

\* TL, TR, BR, BL of an axis-aligned rectangle (a square among them)
IsRectangle(q) ==
  /\ q[0].x < q[1].x
  /\ q[0].y < q[3].y
  /\ q[1] = Pt(q[1].x, q[0].y)
  /\ q[2] = Pt(q[1].x, q[3].y)
  /\ q[3] = Pt(q[0].x, q[3].y)

\* a convex quadrilateral (its diagonals cross) with two parallel sides
IsConvexTrapezoid(q) ==
  /\ SegmentsCross(q[0], q[2], q[1], q[3])
  /\ \/ CrossOf(q[0], q[1], q[3], q[2]) = 0
     \/ CrossOf(q[0], q[3], q[1], q[2]) = 0

\* C16: is_valid_quad rejects every quad with a repeated point, every bowtie
\* and every quad with three collinear points, accepts every rectangle and
\* every convex trapezoid, and in all accepts exactly the quads whose
\* consecutive points differ and whose four turns are all left or all right
\* (which are the quads whose diagonals cross).
C16_ValidatorVerdicts ==
  /\ RepeatedPoint(corners) => ~is_valid_quad(corners)
  /\ Bowtie(corners) => ~is_valid_quad(corners)
  /\ ThreeCollinear(corners) => ~is_valid_quad(corners)
  /\ IsRectangle(corners) => is_valid_quad(corners)
  /\ IsConvexTrapezoid(corners) => is_valid_quad(corners)
  /\ is_valid_quad(corners) <=>
       /\ \A k \in 0..3 : corners[k] # corners[(k + 1) % 4]
       /\ \/ \A k \in 0..3 : Turn(corners[k], corners[(k + 1) % 4], corners[(k + 2) % 4]) > 0
          \/ \A k \in 0..3 : Turn(corners[k], corners[(k + 1) % 4], corners[(k + 2) % 4]) < 0
  /\ is_valid_quad(corners) <=> SegmentsCross(corners[0], corners[2], corners[1], corners[3])

\* the validator has turned a bowtie away at the crop button
C16_Witness ==
  /\ pc = "alert"
  /\ Bowtie(corners)
  /\ ~RepeatedPoint(corners)
  /\ ~ThreeCollinear(corners)
  /\ tooltip_shown

\* the source coordinates the loop computes for destination pixel number n
SourceX(n) ==
  LET hp == Project(H_inv, n % target_width, n \div target_width)
  IN  Quot(hp.n[1], hp.n[3])

SourceY(n) ==
  LET hp == Project(H_inv, n % target_width, n \div target_width)
  IN  Quot(hp.n[2], hp.n[3])

\* got is the average of two channel values of sum sum: exactly, or, when the
\* sum is odd, rounded to a neighbouring channel value
IsAverage(got, sum) ==
  IF sum % 2 = 0 THEN 2 * got = sum ELSE (2 * got = sum + 1 \/ 2 * got = sum - 1)

\* pixel number n was sampled at a point with whole coordinates inside the image
AtPixel(f, n) ==
  /\ SourceX(n).fin /\ SourceY(n).fin
  /\ SourceX(n).d = 1 /\ SourceY(n).d = 1
  /\ SourceX(n).n \in 0..(ImgW(f) - 1)
  /\ SourceY(n).n \in 0..(ImgH(f) - 1)

\* pixel number n was sampled half way between two pixels of one row
AtMidpoint(f, n) ==
  /\ SourceX(n).fin /\ SourceY(n).fin
  /\ SourceX(n).d = 2 /\ SourceY(n).d = 1
  /\ SourceX(n).n \in 0..(2 * (ImgW(f) - 1))
  /\ SourceY(n).n \in 0..(ImgH(f) - 1)

IsInverseOf(b, a) ==
  /\ a.ok
  /\ b.ok
  /\ MatMul3(b.n, a.n) = [k \in 1..9 |-> b.d * a.d * Identity3[k]]
  /\ MatMul3(a.n, b.n) = [k \in 1..9 |-> b.d * a.d * Identity3[k]]

\* C18: for every valid quad a crop is entered with, and its destination
\* rectangle, invert_3x3(compute_homography(src, dst)) times
\* compute_homography(src, dst) is the identity, and this inverse is the
\* H_inv the loop samples with.
C18_RoundTrip ==
  (pc \in { "alloc", "loop", "put" } /\ is_valid_quad(src_quad)) =>
    /\ H = compute_homography(src_quad, dst_rect)
    /\ H_inv = invert_3x3(compute_homography(src_quad, dst_rect))
    /\ IsInverseOf(H_inv, H)

\* the same for the quads whose transform compute_homography solves
RoundTripWhenSolved ==
  (pc \in { "alloc", "loop", "put" } /\ is_valid_quad(src_quad) /\ H.ok) =>
    /\ H_inv = invert_3x3(compute_homography(src_quad, dst_rect))
    /\ IsInverseOf(H_inv, H)

\* C19: whenever perform_crop runs, the buffer it samples, the bitmap shown
\* and the canvas size are those of one file, and the corners lie within
\* that buffer's pixel space, whatever the order of the file-load steps and
\* the crop clicks.
C19_OneFileWhileCropping ==
  InCrop =>
    /\ src_image_data = image_bitmap
    /\ main_canvas = [width |-> ImgW(src_image_data), height |-> ImgH(src_image_data)]
    /\ \A k \in 0..3 :
         /\ src_quad[k].x \in 0..ImgW(src_image_data)
         /\ src_quad[k].y \in 0..ImgH(src_image_data)

\* C20: when the last pending toBlob callback has run and has set the
\* download link, the link is the encoding of the most recent crop.
C20_LinkIsLatestCrop ==
  [][ (download_link' # download_link /\ pending' = {} /\ pc' = "idle") =>
        /\ download_link'.width = cropped_canvas.width
        /\ download_link'.height = cropped_canvas.height
        /\ download_link'.data = cropped_canvas.data
    ]_vars

\* every corner lies within the main canvas, borders included
CornersInCanvas ==
  \A k \in 0..3 : /\ 0 <= corners[k].x
                  /\ corners[k].x <= main_canvas.width
                  /\ 0 <= corners[k].y
                  /\ corners[k].y <= main_canvas.height

\* n = round(0.04 * m), halves rounded up
IsRoundOfFourPercent(n, m) == 100 * n - 50 <= 4 * m /\ 4 * m < 100 * n + 50

\* q is the rectangle inset by n in a w x h canvas, listed TL, TR, BR, BL
IsInsetRect(q, w, h, n) ==
  /\ q[0] = Pt(n, n)
  /\ q[1] = Pt(w - n, n)
  /\ q[2] = Pt(w - n, h - n)
  /\ q[3] = Pt(n, h - n)

\* a step that completes the load of a file gives the canvas the file's size
\* and reseeds the corners
C21_LoadStep ==
  \A l \in loads :
    (l.phase = "bitmap" /\ loads' = loads \ {l}) =>
      /\ image_bitmap' = l.file
      /\ main_canvas' = [width |-> ImgW(l.file), height |-> ImgH(l.file)]
      /\ \E n \in 0..Min(ImgW(l.file), ImgH(l.file)) :
           /\ IsRoundOfFourPercent(n, Min(ImgW(l.file), ImgH(l.file)))
           /\ IsInsetRect(corners', ImgW(l.file), ImgH(l.file), n)

\* C21: from the first completed file load onward, whatever drags, touch
\* moves, arrow nudges and further file loads follow, every corner has
\* 0 <= x <= main_canvas.width and 0 <= y <= main_canvas.height; and a file
\* load reseeds the four corners to the rectangle inset by
\* round(0.04 * min(width, height)), in TL, TR, BR, BL order.
C21_CornersClampedAndSeeded ==
  /\ [](image_bitmap # NullImage => CornersInCanvas)
  /\ [][C21_LoadStep]_vars

\* the 4 x 2 image loaded after another file, and its top-left corner then
\* dragged towards a pointer far outside the canvas: it stops at (4, 2)
C21_Witness ==
  /\ n_loads = 2
  /\ loads = {}
  /\ image_bitmap = 1
  /\ n_edits > 0
  /\ dragging_index = 0
  /\ corners[0] = Pt(4, 2)
  /\ corners[1] = Pt(4, 0)

\* a 100 x 100 image just loaded: the corners sit 4 pixels inside it
C21_SeededWithInset ==
  /\ image_bitmap = SquareFile
  /\ corners[0] = Pt(4, 4)
  /\ corners[2] = Pt(96, 96)

\* the pointer position p brought into the main canvas
ClampedPointer(p) ==
  Pt(Min(main_canvas.width, Max(0, p.x)), Min(main_canvas.height, Max(0, p.y)))

\* what a mousemove or touchmove at p does
C22_MoveStep(p) ==
  (Idle /\ DragTo(p) /\ RestUnchangedUI) =>
    /\ dragging_index' = dragging_index
    /\ selected_corner' = selected_corner
    /\ IF dragging_index = NoDrag
       THEN corners' = corners
       ELSE /\ dragging_index \in 0..3
            /\ corners'[dragging_index] = ClampedPointer(p)
            /\ \A m \in 0..3 : m # dragging_index => corners'[m] = corners[m]

\* C22: a mousemove or touchmove changes the quad only during an active
\* drag: with dragging_index = -1 the corners stay as they are, and with
\* dragging_index = k in 0..3 corners[k] becomes the clamped pointer position
\* while the other three corners, selected_corner and dragging_index stay as
\* they are.
C22_MoveOnlyDraggedCorner == [][\A p \in Pointers : C22_MoveStep(p)]_vars

\* the top-right corner of the 4 x 2 image dragged to (3, 1), the other
\* three corners where the load put them
C22_Witness ==
  /\ image_bitmap = 1
  /\ dragging_index = 1
  /\ selected_corner = 1
  /\ n_edits > 0
  /\ corners[1] = Pt(3, 1)
  /\ corners[0] = Pt(0, 0)
  /\ corners[2] = Pt(4, 2)
  /\ corners[3] = Pt(0, 2)

\* the corners whose handle the pointer position p is on: those within
\* HandleHitRadiusCss CSS pixels of p
CornersUnder(p) ==
  { k \in 0..3 : /\ Dist2(corners[k], p) <= HandleHitRadiusCss * HandleHitRadiusCss
                  /\ Dist2(corners[k], p) * CssPerPx * CssPerPx <= HandleHitRadiusCss * HandleHitRadiusCss }

PressStep(p) == Idle /\ PressAt(p) /\ RestUnchangedUI

ReleaseStep == Idle /\ Release /\ RestUnchangedUI

\* C23, in every state: dragging_index is -1 or a corner index, and the
\* magnifier is on screen exactly when a drag is active over a loaded image
C23_DragState ==
  /\ dragging_index \in { NoDrag } \cup 0..3
  /\ magnifier_shown <=> (dragging_index # NoDrag /\ image_bitmap # NullImage)

\* C23, for every step: a press on a corner starts the drag of a corner
\* under the pointer, a press on no corner leaves dragging_index alone, a
\* release ends the drag, and nothing but a press on a corner makes
\* dragging_index a corner index
C23_DragStep ==
  /\ \A p \in Pointers :
       PressStep(p) => IF CornersUnder(p) = {}
                       THEN dragging_index' = dragging_index
                       ELSE dragging_index' \in CornersUnder(p)
  /\ ReleaseStep => dragging_index' = NoDrag
  /\ (dragging_index' # dragging_index /\ dragging_index' # NoDrag) =>
       \E p \in Pointers : PressStep(p) /\ dragging_index' \in CornersUnder(p)
  /\ (dragging_index' # dragging_index /\ dragging_index' = NoDrag) => ReleaseStep

\* C23: dragging_index is always -1 or a corner index 0..3; it becomes k only
\* by a mousedown or touchstart that hits corner k, a press that hits no
\* corner leaves it unchanged, and every mouseup, touchend or touchcancel
\* returns it to -1; the magnifier is drawn in a repaint if and only if a
\* drag is active at that repaint and an image is loaded, so no repaint after
\* the drag ends shows it.
C23_DragLifecycle == [](C23_DragState) /\ [][C23_DragStep]_vars

\* a drag over a loaded image has moved a corner and has ended: the
\* magnifier is gone, the corner is still selected
C23_Witness ==
  /\ image_bitmap # NullImage
  /\ dragging_index = NoDrag
  /\ selected_corner # NullCorner
  /\ n_edits > 0
  /\ corners # SeedCorners(main_canvas.width, main_canvas.height)
  /\ ~magnifier_shown

\* the pixels an arrow key moves a corner by
StepOf(shift) == IF shift THEN 5 ELSE 1

\* v + d brought into 0..hi
MovedWithin(v, d, hi) == IF v + d < 0 THEN 0 ELSE IF v + d > hi THEN hi ELSE v + d

\* where key, pressed with or without Shift, takes the corner c
ArrowTarget(c, key, shift) ==
  IF key = "ArrowLeft" THEN Pt(MovedWithin(c.x, -StepOf(shift), main_canvas.width), c.y)
  ELSE IF key = "ArrowRight" THEN Pt(MovedWithin(c.x, StepOf(shift), main_canvas.width), c.y)
  ELSE IF key = "ArrowUp" THEN Pt(c.x, MovedWithin(c.y, -StepOf(shift), main_canvas.height))
  ELSE Pt(c.x, MovedWithin(c.y, StepOf(shift), main_canvas.height))

IsArrow(key) == key \in { "ArrowLeft", "ArrowRight", "ArrowUp", "ArrowDown" }

\* what a keydown of key, with or without Shift, does
C24_KeyStep(key, shift) ==
  KeyDownOf(key, shift) =>
    IF selected_corner # NullCorner /\ IsArrow(key)
    THEN /\ selected_corner \in 0..3
         /\ corners'[selected_corner] = ArrowTarget(corners[selected_corner], key, shift)
         /\ \A m \in 0..3 : m # selected_corner => corners'[m] = corners[m]
    ELSE corners' = corners

\* C24: an arrow key pressed while a corner is selected moves exactly that
\* corner by 1 pixel (5 with Shift) along the key's axis, clamped to the
\* canvas bounds, and leaves its other coordinate and the other three corners
\* unchanged; any other key, and any key while selected_corner is null,
\* changes no corner.
C24_ArrowNudge == [][\A key \in Keys, shift \in BOOLEAN : C24_KeyStep(key, shift)]_vars

\* the top-left corner of the 4 x 2 image, selected and not dragged, after
\* ArrowRight and Shift+ArrowDown: one pixel to the right, and down as far as
\* the canvas goes
C24_Witness ==
  /\ image_bitmap = 1
  /\ selected_corner = 0
  /\ dragging_index = NoDrag
  /\ n_edits = 2
  /\ corners[0] = Pt(1, 2)
  /\ corners[1] = Pt(4, 0)
  /\ corners[2] = Pt(4, 2)
  /\ corners[3] = Pt(0, 2)

\* no source image is available yet: the bitmap or the pixel data is missing
NoSourceYet == image_bitmap = NullImage \/ src_image_data = NullImage

\* C25, in every state: while perform_crop runs both images are there
C25_CropHasSource == InCrop => (image_bitmap # NullImage /\ src_image_data # NullImage)

\* C25, for every step: a click on the crop button without a source image
\* changes nothing, and nothing else enters perform_crop
C25_ClickStep ==
  /\ (CropClick /\ NoSourceYet) => UNCHANGED vars
  /\ (~InCrop /\ InCrop') => (CropClick /\ ~NoSourceYet)

\* C25: perform_crop never runs before a source image is available: in every
\* state in which it is entered both image_bitmap and src_image_data are
\* non-null, also while a first file load is still in flight; a click on the
\* crop button before then changes no state.
C25_NoCropBeforeImage == [](C25_CropHasSource) /\ [][C25_ClickStep]_vars

\* perform_crop entered on a loaded image while the next file is being
\* decoded
C25_Witness ==
  /\ pc = "size"
  /\ image_bitmap # NullImage
  /\ src_image_data # NullImage
  /\ \E l \in loads : l.phase = "decoding"

\* the first file's pixel data are stored and its bitmap is not: the
\* handler has not resumed, and no crop has been entered
C25_FirstLoadInFlight ==
  /\ n_loads = 1
  /\ src_image_data # NullImage
  /\ image_bitmap = NullImage
  /\ n_crops = 0
  /\ pc = "idle"

\* while a drag is active the selected corner is the dragged one
SelectionFollowsDrag == dragging_index # NoDrag => selected_corner = dragging_index

SelectionBrokenOnlyByClick ==
  /\ [](selected_corner \in { NullCorner } \cup 0..3)
  /\ [][ /\ dragging_index' # dragging_index => SelectionFollowsDrag'
         /\ (SelectionFollowsDrag /\ ~SelectionFollowsDrag') => \E p \in Pointers : ClickAt(p)
       ]_vars

\* an arrow key has moved a corner during the drag of another corner
NudgedBesideDrag ==
  /\ dragging_index # NoDrag
  /\ selected_corner \in 0..3
  /\ selected_corner # dragging_index
  /\ corners[selected_corner] # SeedCorners(main_canvas.width, main_canvas.height)[selected_corner]
  /\ corners[dragging_index] = SeedCorners(main_canvas.width, main_canvas.height)[dragging_index]
  /\ image_bitmap # NullImage
  /\ n_edits = 1

====
